---- MODULE Spec2Model ----
(***************************************************************************)
(* Token expansion of zync_maya.py: expandFileTokens and _substitute.      *)
(*                                                                         *)
(* A Python string is a sequence of one-character strings.  A token        *)
(* mapping (dict) is a function from names to values; a value is a record  *)
(* that is either the None marker or carries a string.                     *)
(***************************************************************************)
EXTENDS Integers, Sequences, FiniteSets, TLC

VARIABLES path, tokens, leaveUnmatchedTokens, result, pc

\* SubmitWindow.submit and the functions it calls: the scene of the host,
\* its current render layer, the directories on disk, the position of the
\* submission, its params dict and locals, the calls made so far and the
\* exception that ended it
VARIABLES scene, curLayer, dirs, spc, params, loc, calls, exc

tvars == <<path, tokens, leaveUnmatchedTokens, result, pc>>

svars == <<scene, curLayer, dirs, spc, params, loc, calls, exc>>

vars == <<path, tokens, leaveUnmatchedTokens, result, pc,
          scene, curLayer, dirs, spc, params, loc, calls, exc>>

----------------------------------------------------------------------------
(* Bounds of the explored inputs. *)

\* number of lexical pieces a template is built from
MaxPieces == 4

\* number of characters of a tokens argument given in string form
MaxTokStrLen == 5

\* number of render layers of the scene besides defaultRenderLayer
MaxLayers == 2

----------------------------------------------------------------------------
(* Python values. *)

None == [isNone |-> TRUE, str |-> <<>>]

Str(s) == [isNone |-> FALSE, str |-> s]

\* the tokens argument: a dict, or a basestring
Dict(m) == [type |-> "dict", val |-> m]

StrArg(s) == [type |-> "str", val |-> s]

basestring(x) == x.type = "str"

Alpha ==
    {"a","b","c","d","e","f","g","h","i","j","k","l","m",
     "n","o","p","q","r","s","t","u","v","w","x","y","z",
     "A","B","C","D","E","F","G","H","I","J","K","L","M",
     "N","O","P","Q","R","S","T","U","V","W","X","Y","Z"}

SetMin(S) == CHOOSE x \in S : \A y \in S : x <= y

SetMax(S) == CHOOSE x \in S : \A y \in S : y <= x

\* ''.join(list)
RECURSIVE join(_)
join(list) ==
    IF list = <<>> THEN <<>> ELSE Head(list) \o join(Tail(list))

\* '<%s>' % tok
Bracketed(tok) == <<"<">> \o tok \o <<">">>

\* a value inserted without the rewrite of ':'
replace_colon_skipped(s) == s

\* str.replace(':', '_')
replace_colon(s) == [i \in 1..Len(s) |-> IF s[i] = ":" THEN "_" ELSE s[i]]

----------------------------------------------------------------------------
(* The two regular expressions and re.split with one capture group.        *)

\* the match of '\[([^\]]*)\]', a group that may be empty
grp_reg_match_empty(s, i) ==
    IF s[i] # "["
    THEN 0
    ELSE LET closes == {j \in (i+1)..Len(s) : s[j] = "]"}
         IN  IF closes = {} THEN 0 ELSE SetMin(closes)

\* grp_reg = '\[([^\]]+)\]' tried at position i (1-based): the index of the
\* closing bracket of the match, 0 when there is no match at i.
grp_reg_match(s, i) ==
    IF s[i] # "["
    THEN 0
    ELSE LET closes == {j \in (i+1)..Len(s) : s[j] = "]"}
         IN  IF closes = {} THEN 0
             ELSE IF SetMin(closes) > i + 1 THEN SetMin(closes) ELSE 0

\* the match of '<([^<>]+)>', a name of any characters
tok_reg_match_any(s, i) ==
    IF s[i] # "<"
    THEN 0
    ELSE LET k == SetMax({j \in i..Len(s) :
                             \A n \in (i+1)..j : s[n] \notin {"<", ">"}})
         IN  IF k > i /\ k + 1 <= Len(s) /\ s[k+1] = ">" THEN k + 1 ELSE 0

\* tok_reg = '<([a-zA-Z]+)>' tried at position i: the index of the closing
\* angle of the match, 0 when there is no match at i.
tok_reg_match(s, i) ==
    IF s[i] # "<"
    THEN 0
    ELSE LET k == SetMax({j \in i..Len(s) :
                             \A n \in (i+1)..j : s[n] \in Alpha})
         IN  IF k > i /\ k + 1 <= Len(s) /\ s[k+1] = ">" THEN k + 1 ELSE 0

\* grp_reg.split(s): [text, group, text, group, ..., text]
RECURSIVE grp_reg_scan(_,_,_)
grp_reg_scan(s, start, i) ==
    IF i > Len(s)
    THEN << SubSeq(s, start, Len(s)) >>
    ELSE LET e == grp_reg_match(s, i)
         IN  IF e = 0
             THEN grp_reg_scan(s, start, i + 1)
             ELSE << SubSeq(s, start, i - 1), SubSeq(s, i + 1, e - 1) >>
                     \o grp_reg_scan(s, e + 1, e + 1)

grp_reg_split(s) == grp_reg_scan(s, 1, 1)

\* tok_reg.split(s): [text, name, text, name, ..., text]
RECURSIVE tok_reg_scan(_,_,_)
tok_reg_scan(s, start, i) ==
    IF i > Len(s)
    THEN << SubSeq(s, start, Len(s)) >>
    ELSE LET e == tok_reg_match(s, i)
         IN  IF e = 0
             THEN tok_reg_scan(s, start, i + 1)
             ELSE << SubSeq(s, start, i - 1), SubSeq(s, i + 1, e - 1) >>
                     \o tok_reg_scan(s, e + 1, e + 1)

tok_reg_split(s) == tok_reg_scan(s, 1, 1)

----------------------------------------------------------------------------
(* even, odd, _substitute, expandFileTokens.                               *)

\* the parity test the name suggests
even_by_name(num) == (num % 2) = 0

even(num) == (num % 2) # 0

odd(num) == ~ ((num % 2) # 0)

\* token_step with the KeyError branch never looking at allOrNothing
token_step_independent(tok, toks, allOrNothing, leave) ==
    IF tok \in DOMAIN toks
    THEN IF toks[tok].isNone
         THEN [return |-> FALSE, text |-> Bracketed(tok)]
         ELSE [return |-> FALSE, text |-> replace_colon(toks[tok].str)]
    ELSE IF leave
         THEN [return |-> FALSE, text |-> Bracketed(tok)]
         ELSE [return |-> FALSE, text |-> <<>>]

\* token_step with the all-or-nothing return never looking at
\* leaveUnmatchedTokens
token_step_drops(tok, toks, allOrNothing, leave) ==
    IF tok \in DOMAIN toks
    THEN IF toks[tok].isNone
         THEN [return |-> FALSE, text |-> Bracketed(tok)]
         ELSE [return |-> FALSE, text |-> replace_colon(toks[tok].str)]
    ELSE IF allOrNothing
         THEN [return |-> TRUE, text |-> <<>>]
         ELSE IF leave
              THEN [return |-> FALSE, text |-> Bracketed(tok)]
              ELSE [return |-> FALSE, text |-> <<>>]

\* token_step with a None value appended as the empty string
token_step_none_empty(tok, toks, allOrNothing, leave) ==
    IF tok \in DOMAIN toks
    THEN IF toks[tok].isNone
         THEN [return |-> FALSE, text |-> <<>>]
         ELSE [return |-> FALSE, text |-> replace_colon(toks[tok].str)]
    ELSE IF allOrNothing
         THEN IF leave
              THEN [return |-> TRUE, text |-> Bracketed(tok)]
              ELSE [return |-> TRUE, text |-> <<>>]
         ELSE IF leave
              THEN [return |-> FALSE, text |-> Bracketed(tok)]
              ELSE [return |-> FALSE, text |-> <<>>]

\* token_step with a None value handled like a KeyError
token_step_none_missing(tok, toks, allOrNothing, leave) ==
    IF tok \in DOMAIN toks /\ ~ toks[tok].isNone
    THEN [return |-> FALSE, text |-> replace_colon(toks[tok].str)]
    ELSE IF allOrNothing
         THEN IF leave
              THEN [return |-> TRUE, text |-> Bracketed(tok)]
              ELSE [return |-> TRUE, text |-> <<>>]
         ELSE IF leave
              THEN [return |-> FALSE, text |-> Bracketed(tok)]
              ELSE [return |-> FALSE, text |-> <<>>]

\* the try/except of _substitute for the token tok: the text it appends to
\* the result list, or (return = TRUE) the text _substitute returns at once
token_step(tok, toks, allOrNothing, leave) ==
    IF tok \in DOMAIN toks
    THEN LET tokn == toks[tok]
         IN  IF tokn.isNone
             THEN [return |-> FALSE, text |-> Bracketed(tok)]
             ELSE [return |-> FALSE, text |-> replace_colon(tokn.str)]
    ELSE IF allOrNothing
         THEN IF leave
              THEN [return |-> TRUE, text |-> Bracketed(tok)]
              ELSE [return |-> TRUE, text |-> <<>>]
         ELSE IF leave
              THEN [return |-> FALSE, text |-> Bracketed(tok)]
              ELSE [return |-> FALSE, text |-> <<>>]

\* the for loop of _substitute; i is the 0-based index of enumerate(parts),
\* res the list built so far
RECURSIVE substitute_loop(_,_,_,_,_,_)
substitute_loop(parts, toks, allOrNothing, leave, i, res) ==
    IF i >= Len(parts)
    THEN join(res)
    ELSE LET tok == parts[i + 1]
         IN  IF even(i)
             THEN LET step == token_step(tok, toks, allOrNothing, leave)
                  IN  IF step.return
                      THEN step.text
                      ELSE substitute_loop(parts, toks, allOrNothing, leave,
                               i + 1, Append(res, step.text))
             ELSE substitute_loop(parts, toks, allOrNothing, leave,
                      i + 1, Append(res, tok))

_substitute(parts, toks, allOrNothing, leave) ==
    substitute_loop(parts, toks, allOrNothing, leave, 0, <<>>)

\* the for loop of expandFileTokens over grp_reg.split(path)
RECURSIVE expand_loop(_,_,_,_,_)
expand_loop(grps, toks, leave, i, res) ==
    IF i >= Len(grps)
    THEN join(res)
    ELSE LET parts == tok_reg_split(grps[i + 1])
         IN  IF even(i)
             THEN expand_loop(grps, toks, leave, i + 1,
                      Append(res, _substitute(parts, toks, TRUE, leave)))
             ELSE expand_loop(grps, toks, leave, i + 1,
                      Append(res, _substitute(parts, toks, FALSE, leave)))

\* expandFileTokens once tokens is a dict
expandFileTokens(p, toks, leave) ==
    expand_loop(grp_reg_split(p), toks, leave, 0, <<>>)

----------------------------------------------------------------------------
(* The string form of the tokens argument:                                 *)
(*   dict([pair.split('=') for pair in shlex.split(tokens)])               *)
(* A step that raises in Python yields [ok |-> FALSE].                     *)

Whitespace == {" "}

Quotes == {"\""}

\* shlex.split(s) (posix, whitespace_split, no comments) for text without
\* escape characters.  state is the lexer state: " " between words, "a"
\* inside a word, "\"" inside a quoted part; token the word read so far.
RECURSIVE shlex_scan(_,_,_,_,_)
shlex_scan(s, i, state, token, out) ==
    IF i > Len(s)
    THEN IF state \in Quotes
         THEN [ok |-> FALSE, val |-> <<>>]      \* No closing quotation
         ELSE IF state = "a"
              THEN [ok |-> TRUE, val |-> Append(out, token)]
              ELSE [ok |-> TRUE, val |-> out]
    ELSE LET nextchar == s[i]
         IN  IF state = " "
             THEN IF nextchar \in Whitespace
                  THEN shlex_scan(s, i + 1, " ", <<>>, out)
                  ELSE IF nextchar \in Quotes
                       THEN shlex_scan(s, i + 1, nextchar, <<>>, out)
                       ELSE shlex_scan(s, i + 1, "a", <<nextchar>>, out)
             ELSE IF state \in Quotes
                  THEN IF nextchar = state
                       THEN shlex_scan(s, i + 1, "a", token, out)
                       ELSE shlex_scan(s, i + 1, state,
                                Append(token, nextchar), out)
                  ELSE IF nextchar \in Whitespace
                       THEN shlex_scan(s, i + 1, " ", <<>>,
                                Append(out, token))
                       ELSE IF nextchar \in Quotes
                            THEN shlex_scan(s, i + 1, nextchar, token, out)
                            ELSE shlex_scan(s, i + 1, "a",
                                     Append(token, nextchar), out)

shlex_split(s) == shlex_scan(s, 1, " ", <<>>, <<>>)

\* pair.split('=')
RECURSIVE split_eq_scan(_,_,_)
split_eq_scan(s, start, i) ==
    IF i > Len(s)
    THEN << SubSeq(s, start, Len(s)) >>
    ELSE IF s[i] = "="
         THEN << SubSeq(s, start, i - 1) >> \o split_eq_scan(s, i + 1, i + 1)
         ELSE split_eq_scan(s, start, i + 1)

split_eq(s) == split_eq_scan(s, 1, 1)

\* dict(list of lists): every element needs exactly two items, a later
\* pair replaces an earlier one with the same key
RECURSIVE dict_of(_,_)
dict_of(pairs, m) ==
    IF pairs = <<>>
    THEN [ok |-> TRUE, val |-> m]
    ELSE LET kv == split_eq(Head(pairs))
         IN  IF Len(kv) # 2
             THEN [ok |-> FALSE, val |-> <<>>]  \* ValueError
             ELSE dict_of(Tail(pairs),
                      [k \in DOMAIN m \cup {kv[1]} |->
                          IF k = kv[1] THEN Str(kv[2]) ELSE m[k]])

ParseTokens(s) ==
    LET words == shlex_split(s)
    IN  IF ~ words.ok
        THEN [ok |-> FALSE, val |-> <<>>]
        ELSE dict_of(words.val, <<>>)

----------------------------------------------------------------------------
(* The inputs explored.                                                    *)

\* the lexical pieces templates are built from: two placeholders, an
\* angle-bracketed name that tok_reg does not match, the group brackets and
\* two literal characters
Pieces ==
    { <<"<","a",">">>, <<"<","b",">">>, <<"<","1",">">>,
      <<"[">>, <<"]">>, <<"x">>, <<":">> }

\* the templates of the documentation and the edge cases of the two regular
\* expressions, with a for RenderPass/X and b for Y
Examples ==
    { <<"x","[","_","<","a",">","]",".","y">>,
      <<"x","[","<","a",">","<","b",">","]","x">>,
      <<"x","[",":","<","a",">","<","b",">","]">>,
      <<"x","[","_","<","a",">","]","[","<","b",">","]",".","y">>,
      <<"x"," ","x">>,
      <<"<",">">>,
      <<"<","a","1",">">>,
      <<"<","a","_","b",">">>,
      <<"<","a","b",">">>,
      <<"<","<","a",">",">">>,
      <<"[","<","1",">","<","b",">","]">>,
      <<"[","[","x","]","]">>,
      <<"[","]","[","x","]">>,
      <<"<","1",">","]","[","<","a",">","]","[">> }

Templates ==
    { join(ps) : ps \in UNION { [1..n -> Pieces] : n \in 0..MaxPieces } }
        \cup Examples

\* names tok_reg does not match
BadNames == { <<"1">>, <<>>, <<"a","1">>, <<"a","_","b">> }

\* a given, b given, the bad names given
MakeMapping(va, vb, bad) ==
    [ k \in (IF va = "missing" THEN {} ELSE {<<"a">>})
              \cup (IF vb = "missing" THEN {} ELSE {<<"b">>})
              \cup (IF bad THEN BadNames ELSE {}) |->
        IF k = <<"a">>
        THEN IF va = "None" THEN None ELSE Str(<<"v",":","w">>)
        ELSE IF k = <<"b">> THEN Str(<<"y">>) ELSE Str(<<"z">>) ]

Mappings ==
    { MakeMapping(va, vb, bad) :
        va \in {"missing", "None", "str"}, vb \in {"missing", "str"},
        bad \in BOOLEAN }

TokStrChars == { "a", "=", " ", "\"" }

TokenStrings ==
    UNION { [1..n -> TokStrChars] : n \in 0..MaxTokStrLen }

\* templates expanded with a tokens argument in string form
StrFormTemplates ==
    { <<"<","a",">">>, <<"x","[",":","<","a",">","]">> }

----------------------------------------------------------------------------
(* The state machine: one call of expandFileTokens.                        *)

\* no submission takes place
SubmitOff ==
    /\ scene = <<>> /\ curLayer = <<>> /\ dirs = {} /\ spc = "off"
    /\ params = <<>> /\ loc = <<>> /\ calls = <<>> /\ exc = "none"

Init ==
    /\ SubmitOff
    /\ pc = "call"
    /\ result = <<>>
    /\ leaveUnmatchedTokens \in BOOLEAN
    /\ \/ /\ path \in Templates
          /\ tokens \in { Dict(m) : m \in Mappings }
       \/ /\ path \in StrFormTemplates
          /\ tokens \in { StrArg(s) : s \in TokenStrings }

\* expandFileTokens(path, tokens, leaveUnmatchedTokens): tokens is rebound
\* to the parsed dict when it was a string; the call returns the expansion
\* or raises inside the parse
Call ==
    /\ pc = "call"
    /\ LET parsed == IF basestring(tokens)
                     THEN ParseTokens(tokens.val)
                     ELSE [ok |-> TRUE, val |-> tokens.val]
       IN  IF parsed.ok
           THEN /\ tokens' = Dict(parsed.val)
                /\ result' = expandFileTokens(path, parsed.val,
                                              leaveUnmatchedTokens)
                /\ pc' = "done"
           ELSE /\ pc' = "raised"
                /\ UNCHANGED <<tokens, result>>
    /\ UNCHANGED <<path, leaveUnmatchedTokens>>
    /\ UNCHANGED svars

Next == Call

Spec == Init /\ [][Next]_vars

Done == pc = "done"

\* the dict the expansion ran with
Mapping == tokens.val

----------------------------------------------------------------------------
(* Vocabulary of the properties, stated on the characters of a string.     *)

\* s[i..j] is a placeholder '<Name>' with a non-empty alphabetic name
IsPlaceholder(s, i, j) ==
    /\ 1 <= i /\ i + 1 < j /\ j <= Len(s)
    /\ s[i] = "<" /\ s[j] = ">"
    /\ \A n \in (i+1)..(j-1) : s[n] \in Alpha

\* the index closing the placeholder that opens at i, 0 when none does
PlaceholderEnd(s, i) ==
    IF \E j \in (i+2)..Len(s) : IsPlaceholder(s, i, j)
    THEN CHOOSE j \in (i+2)..Len(s) : IsPlaceholder(s, i, j)
    ELSE 0

HasPlaceholder(s) == \E i \in 1..Len(s) : PlaceholderEnd(s, i) # 0

\* the names of the placeholders of s
NamesIn(s) ==
    { SubSeq(s, i + 1, PlaceholderEnd(s, i) - 1) :
        i \in { n \in 1..Len(s) : PlaceholderEnd(s, n) # 0 } }

Angle(name) == <<"<">> \o name \o <<">">>

Underscored(s) == [i \in 1..Len(s) |-> IF s[i] = ":" THEN "_" ELSE s[i]]

\* s with every placeholder '<Name>' replaced by Sub(Name)
Replaced(s, Sub(_)) ==
    LET f[i \in 1..(Len(s) + 1)] ==
            IF i > Len(s) THEN <<>>
            ELSE IF PlaceholderEnd(s, i) = 0
                 THEN <<s[i]>> \o f[i + 1]
                 ELSE Sub(SubSeq(s, i + 1, PlaceholderEnd(s, i) - 1))
                         \o f[PlaceholderEnd(s, i) + 1]
    IN  f[1]

\* what a name present in the mapping is replaced by
Substitution(name, toks) ==
    IF toks[name].isNone THEN Angle(name) ELSE Underscored(toks[name].str)

\* the name of the leftmost placeholder of s missing from the mapping
LeftmostMissing(s, toks) ==
    LET i == SetMin({ n \in 1..Len(s) :
                        /\ PlaceholderEnd(s, n) # 0
                        /\ SubSeq(s, n + 1, PlaceholderEnd(s, n) - 1)
                              \notin DOMAIN toks })
    IN  SubSeq(s, i + 1, PlaceholderEnd(s, i) - 1)

\* the spans of a template: spans with an odd index lie outside the groups,
\* spans with an even index are the contents of the groups
Spans(p) == grp_reg_split(p)

GroupIndices(p) == { k \in 1..Len(Spans(p)) : k % 2 = 0 }

OutsideIndices(p) == { k \in 1..Len(Spans(p)) : k % 2 = 1 }

\* the concatenation, in template order, of Out(span) for the spans outside
\* the groups and Grp(content) for the groups
Assemble(p, Out(_), Grp(_)) ==
    LET spans == Spans(p)
        f[k \in 0..Len(spans)] ==
            IF k = 0 THEN <<>>
            ELSE f[k - 1] \o (IF k % 2 = 0 THEN Grp(spans[k])
                                           ELSE Out(spans[k]))
    IN  f[Len(spans)]

\* the expansion of a group standing alone
AloneGroup(g, toks, leave) ==
    expandFileTokens(<<"[">> \o g \o <<"]">>, toks, leave)

----------------------------------------------------------------------------
(* Properties of the expansion.                                            *)

\* C1: with leaveUnmatchedTokens false, each bracketed group contributes the
\* empty string when a placeholder inside it names a key missing from the
\* mapping, and otherwise its content without the brackets and with every
\* placeholder replaced by its substitution; the text before and after the
\* groups is kept, its own placeholders resolved one by one.
C1_GroupAllOrNothing ==
    (Done /\ ~ leaveUnmatchedTokens) =>
        result = Assemble(path,
                    LAMBDA s : Replaced(s, LAMBDA n :
                                   IF n \in DOMAIN Mapping
                                   THEN Substitution(n, Mapping) ELSE <<>>),
                    LAMBDA g : IF NamesIn(g) \subseteq DOMAIN Mapping
                               THEN Replaced(g, LAMBDA n :
                                        Substitution(n, Mapping))
                               ELSE <<>>)

\* a call without the flag on a template with text around a dropped group
\* and an expanded group
C1_Witness ==
    /\ Done /\ ~ leaveUnmatchedTokens
    /\ Spans(path)[1] # <<>> /\ Spans(path)[Len(Spans(path))] # <<>>
    /\ \E k \in GroupIndices(path) :
          ~ (NamesIn(Spans(path)[k]) \subseteq DOMAIN Mapping)
    /\ \E k \in GroupIndices(path) :
          /\ NamesIn(Spans(path)[k]) # {}
          /\ NamesIn(Spans(path)[k]) \subseteq DOMAIN Mapping
    /\ result # path

\* C2: outside any group each placeholder is resolved on its own: a name
\* mapped to a string is replaced by that string with every ':' rewritten
\* to '_', a missing name by the empty string without the flag and by
\* '<Name>' with it; a ':' of the template itself is never rewritten.
C2_OutsideIndependent ==
    (Done /\ \A k \in OutsideIndices(path) :
                \A n \in NamesIn(Spans(path)[k]) \cap DOMAIN Mapping :
                    ~ Mapping[n].isNone) =>
        result = Assemble(path,
                    LAMBDA s : Replaced(s, LAMBDA n :
                                   IF n \in DOMAIN Mapping
                                   THEN Underscored(Mapping[n].str)
                                   ELSE IF leaveUnmatchedTokens
                                        THEN Angle(n) ELSE <<>>),
                    LAMBDA g : AloneGroup(g, Mapping, leaveUnmatchedTokens))

\* '<a>:<b>' with a value that holds a ':' for a and b missing, under the
\* flag
C2_Witness ==
    /\ Done /\ leaveUnmatchedTokens
    /\ path = <<"<","a",">",":","<","b",">">>
    /\ <<"a">> \in DOMAIN Mapping /\ ~ Mapping[<<"a">>].isNone
    /\ \E i \in 1..Len(Mapping[<<"a">>].str) : Mapping[<<"a">>].str[i] = ":"
    /\ <<"b">> \notin DOMAIN Mapping
    /\ result = <<"v","_","w",":","<","b",">">>

\* C3: with leaveUnmatchedTokens true, a group with a placeholder whose name
\* is missing from the mapping expands to '<Name>' of the leftmost such
\* placeholder and nothing else.
C3_GroupLeftmostMissing ==
    (Done /\ leaveUnmatchedTokens) =>
        result = Assemble(path,
                    LAMBDA s : expandFileTokens(s, Mapping, TRUE),
                    LAMBDA g : IF NamesIn(g) \subseteq DOMAIN Mapping
                               THEN AloneGroup(g, Mapping, TRUE)
                               ELSE Angle(LeftmostMissing(g, Mapping)))

\* a call with the flag on a group that has literal text, a resolved
\* placeholder and, after it, a missing one
C3_Witness ==
    /\ Done /\ leaveUnmatchedTokens
    /\ path = <<"x","[",":","<","a",">","<","b",">","]">>
    /\ <<"a">> \in DOMAIN Mapping /\ <<"b">> \notin DOMAIN Mapping
    /\ result = <<"x","<","b",">">>

\* the words of a string between its spaces
RECURSIVE WordsOf(_)
WordsOf(s) ==
    IF s = <<>> THEN <<>>
    ELSE IF Head(s) = " " THEN WordsOf(Tail(s))
    ELSE LET n == SetMax({ j \in 1..Len(s) :
                             \A i \in 1..j : s[i] # " " })
         IN  << SubSeq(s, 1, n) >> \o WordsOf(SubSeq(s, n + 1, Len(s)))

\* a string of the documented form: unquoted words 'Name=value' separated
\* by spaces, Name alphabetic, value any text without spaces or quotes
IsNameValueList(s) ==
    /\ \A i \in 1..Len(s) : s[i] # "\""
    /\ \A w \in { WordsOf(s)[n] : n \in 1..Len(WordsOf(s)) } :
          \E e \in 2..Len(w) :
              /\ w[e] = "="
              /\ \A i \in 1..(e - 1) : w[i] \in Alpha

\* C4: the call never fails: for every template, every flag and every tokens
\* argument that is a mapping or a string of the form 'Name=value ...', it
\* returns a string and raises no error.
C4_NeverFails ==
    (basestring(tokens) => IsNameValueList(tokens.val)) => pc # "raised"

\* the mapping m with the name k added and mapped to None
WithNone(m, k) == [n \in DOMAIN m \cup {k} |-> IF n = k THEN None ELSE m[n]]

KnownNames == { <<"a">>, <<"b">> } \cup BadNames

\* C5 as stated: a name mapped to None expands like a name missing from the
\* mapping, for every template, mapping and flag.
C5_NoneEqualsMissing ==
    Done => \A k \in KnownNames \ DOMAIN Mapping :
                expandFileTokens(path, WithNone(Mapping, k),
                                 leaveUnmatchedTokens) = result

\* C5 amended: a name k mapped to None expands like a missing name when
\* leaveUnmatchedTokens is true and no group of the template holds the
\* placeholder '<k>', and when the template has no placeholder '<k>' at all.
C5_NoneEqualsMissingOutside ==
    Done => \A k \in KnownNames \ DOMAIN Mapping :
                ( \/ k \notin NamesIn(path)
                  \/ /\ leaveUnmatchedTokens
                     /\ \A g \in GroupIndices(path) :
                           k \notin NamesIn(Spans(path)[g]) )
                => expandFileTokens(path, WithNone(Mapping, k),
                                    leaveUnmatchedTokens) = result

\* a call with the flag where a missing name has a placeholder outside the
\* groups, so that the result holds its '<Name>'
C5_Witness ==
    /\ Done /\ leaveUnmatchedTokens
    /\ <<"a">> \notin DOMAIN Mapping
    /\ \E k \in OutsideIndices(path) : <<"a">> \in NamesIn(Spans(path)[k])
    /\ \A g \in GroupIndices(path) : <<"a">> \notin NamesIn(Spans(path)[g])
    /\ GroupIndices(path) # {}
    /\ \E i \in 1..Len(result) : PlaceholderEnd(result, i) # 0

\* C6: a placeholder whose name is mapped to None renders as '<Name>' with
\* either flag, outside the groups whatever the other placeholders are, and
\* inside every group whose placeholders are all present in the mapping;
\* such a group is expanded, not dropped.
C6_NoneRendersLiteral ==
    Done =>
        result = Assemble(path,
                    LAMBDA s : Replaced(s, LAMBDA n :
                        IF n \in DOMAIN Mapping /\ Mapping[n].isNone
                        THEN Angle(n)
                        ELSE expandFileTokens(Angle(n), Mapping,
                                              leaveUnmatchedTokens)),
                    LAMBDA g : IF NamesIn(g) \subseteq DOMAIN Mapping
                               THEN Replaced(g, LAMBDA n :
                                        Substitution(n, Mapping))
                               ELSE AloneGroup(g, Mapping,
                                               leaveUnmatchedTokens))

\* 'x[_<a>].y' with a mapped to None and no flag: the group is kept
C6_Witness ==
    /\ Done /\ ~ leaveUnmatchedTokens
    /\ path = <<"x","[","_","<","a",">","]",".","y">>
    /\ <<"a">> \in DOMAIN Mapping /\ Mapping[<<"a">>].isNone
    /\ result = <<"x","_","<","a",">",".","y">>

\* the brackets of p are balanced and not nested
BalancedFlat(p) ==
    LET depth[i \in 0..Len(p)] ==
            IF i = 0 THEN 0
            ELSE depth[i - 1] + (IF p[i] = "[" THEN 1
                                 ELSE IF p[i] = "]" THEN -1 ELSE 0)
    IN  /\ \A i \in 0..Len(p) : depth[i] \in {0, 1}
        /\ depth[Len(p)] = 0

\* the characters of s that belong to no placeholder and are no bracket
LiteralsOf(s) ==
    SelectSeq(Replaced(s, LAMBDA n : <<>>), LAMBDA c : c \notin {"[", "]"})

\* the literal characters of p outside the groups that hold a placeholder
\* missing from the mapping
KeptLiterals(p, toks) ==
    Assemble(p, LiteralsOf,
             LAMBDA g : IF NamesIn(g) \subseteq DOMAIN toks
                        THEN LiteralsOf(g) ELSE <<>>)

RECURSIVE IsSubsequence(_,_)
IsSubsequence(a, b) ==
    IF a = <<>> THEN TRUE
    ELSE IF b = <<>> THEN FALSE
    ELSE IF Head(a) = Head(b) THEN IsSubsequence(Tail(a), Tail(b))
    ELSE IsSubsequence(a, Tail(b))

\* C7: for a template with balanced brackets that are not nested, the
\* literal characters outside dropped groups all appear in the result, in
\* template order.
C7_LiteralsKept ==
    (Done /\ BalancedFlat(path)) =>
        IsSubsequence(KeptLiterals(path, Mapping), result)

\* a call on a balanced template with literals before, inside and after a
\* kept group and with a dropped group
C7_Witness ==
    /\ Done /\ BalancedFlat(path)
    /\ \E k \in GroupIndices(path) :
          ~ (NamesIn(Spans(path)[k]) \subseteq DOMAIN Mapping)
    /\ \E k \in GroupIndices(path) :
          /\ NamesIn(Spans(path)[k]) \subseteq DOMAIN Mapping
          /\ LiteralsOf(Spans(path)[k]) # <<>>
    /\ LiteralsOf(Spans(path)[1]) # <<>>
    /\ LiteralsOf(Spans(path)[Len(Spans(path))]) # <<>>
    /\ Len(KeptLiterals(path, Mapping)) < Len(result)

\* s holds a bracketed group: '[', one or more characters other than ']',
\* and ']'
HasGroup(s) ==
    \E i, j \in 1..Len(s) :
        /\ i + 1 < j /\ s[i] = "[" /\ s[j] = "]"
        /\ \A n \in (i+1)..(j-1) : s[n] # "]"

\* C8 as stated: an output without a placeholder is a fixed point of the
\* expansion with an empty mapping and leaveUnmatchedTokens true.
C8_FixedPoint ==
    (Done /\ ~ HasPlaceholder(result)) =>
        expandFileTokens(result, <<>>, TRUE) = result

\* C8 amended: an output without a placeholder and without a bracketed
\* group is a fixed point of the expansion with an empty mapping and
\* leaveUnmatchedTokens true.
C8_FixedPointNoGroup ==
    (Done /\ ~ HasPlaceholder(result) /\ ~ HasGroup(result)) =>
        expandFileTokens(result, <<>>, TRUE) = result

\* a call that resolved a placeholder and a group and left brackets in an
\* output without placeholders and groups
C8_Witness ==
    /\ Done /\ ~ HasPlaceholder(result) /\ ~ HasGroup(result)
    /\ HasPlaceholder(path) /\ HasGroup(path)
    /\ \E i \in 1..Len(result) : result[i] \in {"[", "]"}

\* C9: a template without a placeholder and without a bracketed group is
\* returned unchanged, for every mapping and flag; the empty template gives
\* the empty result.
C9_PlainIdentity ==
    (Done /\ ~ HasPlaceholder(path) /\ ~ HasGroup(path)) => result = path

\* 'x x' expanded with a mapping that is not empty
C9_Witness ==
    /\ Done /\ path = <<"x"," ","x">> /\ result = <<"x"," ","x">>
    /\ DOMAIN Mapping # {}

\* s[i..j] is an angle-bracketed name that is no placeholder: the name is
\* empty or holds a character that is not alphabetic (and no angle or
\* group bracket)
IsMalformedName(s, i, j) ==
    /\ 1 <= i /\ i < j /\ j <= Len(s)
    /\ s[i] = "<" /\ s[j] = ">"
    /\ \A n \in (i+1)..(j-1) : s[n] \notin {"<", ">", "[", "]"}
    /\ ~ IsPlaceholder(s, i, j)

\* the mapping restricted to the names a placeholder can have
AlphabeticOnly(m) ==
    [ n \in { k \in DOMAIN m :
                 k # <<>> /\ \A i \in 1..Len(k) : k[i] \in Alpha } |-> m[n] ]

\* the result is the expansion of the text before s[i..j], s[i..j] itself
\* and the expansion of the text after it
CopiedAt(i, j) ==
    result = expandFileTokens(SubSeq(path, 1, i - 1), Mapping,
                              leaveUnmatchedTokens)
             \o SubSeq(path, i, j)
             \o expandFileTokens(SubSeq(path, j + 1, Len(path)), Mapping,
                                 leaveUnmatchedTokens)

\* C10: text that is no well-formed placeholder or group is copied to the
\* result: an angle-bracketed name with a character that is not alphabetic
\* is never substituted, whatever keys the mapping has, and stays as it is
\* outside the groups; a '[' with no later ']' and a ']' with no earlier '['
\* stay in the result.
C10_MalformedIsLiteral ==
    Done =>
        /\ result = expandFileTokens(path, AlphabeticOnly(Mapping),
                                     leaveUnmatchedTokens)
        /\ \A i, j \in 1..Len(path) :
              ( /\ IsMalformedName(path, i, j)
                /\ \/ \A n \in 1..(i-1) : path[n] # "["
                   \/ \A n \in (j+1)..Len(path) : path[n] # "]" )
              => CopiedAt(i, j)
        /\ \A i \in 1..Len(path) :
              (path[i] = "[" /\ \A n \in (i+1)..Len(path) : path[n] # "]")
              => CopiedAt(i, i)
        /\ \A i \in 1..Len(path) :
              (path[i] = "]" /\ \A n \in 1..(i-1) : path[n] # "[")
              => CopiedAt(i, i)

\* '<1>][<a>][' expanded with a mapping that has the key '1': the name, the
\* leading ']' and the trailing '[' are in the result
C10_Witness ==
    /\ Done
    /\ path = <<"<","1",">","]","[","<","a",">","]","[">>
    /\ <<"1">> \in DOMAIN Mapping /\ <<"a">> \in DOMAIN Mapping
    /\ ~ Mapping[<<"a">>].isNone
    /\ result = <<"<","1",">","]","v","_","w","[">>

----------------------------------------------------------------------------
(* Paths and directories: os.path.join, os.path.dirname, os.path.exists    *)
(* and os.makedirs on absolute POSIX paths.                                *)

\* os.path.join(a, b)
join_path(a, b) ==
    IF b # <<>> /\ b[1] = "/" THEN b
    ELSE IF a = <<>> \/ a[Len(a)] = "/" THEN a \o b
    ELSE a \o <<"/">> \o b

\* s.rstrip('/')
rstrip_slash(s) ==
    SubSeq(s, 1, SetMax({ n \in 0..Len(s) : n = 0 \/ s[n] # "/" }))

\* os.path.dirname(p)
dirname(p) ==
    LET slashes == { i \in 1..Len(p) : p[i] = "/" }
        head == IF slashes = {} THEN <<>> ELSE SubSeq(p, 1, SetMax(slashes))
    IN  IF head # <<>> /\ \E n \in 1..Len(head) : head[n] # "/"
        THEN rstrip_slash(head)
        ELSE head

\* the directory a path names: the sequence of its components
RECURSIVE Components(_)
Components(p) ==
    IF p = <<>> THEN <<>>
    ELSE IF Head(p) = "/" THEN Components(Tail(p))
    ELSE LET n == SetMax({ j \in 1..Len(p) :
                             \A i \in 1..j : p[i] # "/" })
         IN  << SubSeq(p, 1, n) >> \o Components(SubSeq(p, n + 1, Len(p)))

\* os.path.exists(p) with the directories d on disk; the root exists
path_exists(p, d) == Components(p) = <<>> \/ Components(p) \in d

\* os.makedirs(p): the leaf and every intermediate directory
makedirs(p, d) ==
    d \cup { SubSeq(Components(p), 1, n) : n \in 1..Len(Components(p)) }

----------------------------------------------------------------------------
(* create_local_paths.                                                     *)

\* the renderers of the zync module
VRAY_RENDERER == "vray"

MENTAL_RAY_RENDERER == "mr"

SOFTWARE_RENDERER == "sw"

defaultRenderLayer ==
    <<"d","e","f","a","u","l","t","R","e","n","d","e","r","L","a","y","e","r">>

masterLayer == <<"m","a","s","t","e","r","L","a","y","e","r">>

\* {'Layer': k, 'RenderLayer': k}
LayerTokens(k) ==
    [ n \in { <<"L","a","y","e","r">>,
              <<"R","e","n","d","e","r","L","a","y","e","r">> } |-> Str(k) ]

\* {'RenderPass': pass_name}
PassTokens(pass_name) ==
    [ n \in { <<"R","e","n","d","e","r","P","a","s","s">> } |->
        Str(pass_name) ]

\* dict.get(layer, [])
GetPasses(layer_passes, layer) ==
    IF layer \in DOMAIN layer_passes THEN layer_passes[layer] ELSE <<>>

\* layer_paths after the first two blocks of create_local_paths;
\* file_prefix is [global_prefix, layer_prefixes]
layer_paths_of(prm) ==
    LET base_out_path == prm.out_path
        file_prefix == prm.scene_info.file_prefix
        default == dirname(join_path(base_out_path, file_prefix[1]))
        prefixes == file_prefix[2]
    IN  [ k \in {defaultRenderLayer} \cup DOMAIN prefixes |->
            IF k \in DOMAIN prefixes
            THEN expandFileTokens(
                     dirname(join_path(base_out_path, prefixes[k])),
                     LayerTokens(k), TRUE)
            ELSE expandFileTokens(default, LayerTokens(masterLayer), TRUE) ]

\* pass_path of a layer directory and a pass
pass_path_of(renderer, layer_path, pass_name) ==
    IF renderer = VRAY_RENDERER
    THEN join_path(layer_path, pass_name)
    ELSE IF renderer \in {MENTAL_RAY_RENDERER, SOFTWARE_RENDERER}
         THEN expandFileTokens(layer_path, PassTokens(pass_name), FALSE)
         ELSE layer_path

\* the loop over the passes of one layer, from pass j on; d the directories
RECURSIVE clp_passes(_,_,_,_,_,_)
clp_passes(renderer, layer_paths, layer, passes, j, d) ==
    IF j > Len(passes)
    THEN [exc |-> "none", dirs |-> d]
    ELSE IF layer \notin DOMAIN layer_paths
         THEN [exc |-> "KeyError", dirs |-> d]
         ELSE LET pass_path ==
                      pass_path_of(renderer, layer_paths[layer], passes[j])
              IN  clp_passes(renderer, layer_paths, layer, passes, j + 1,
                      IF path_exists(pass_path, d)
                      THEN d ELSE makedirs(pass_path, d))

\* the loop over params['selected_layers'], from layer i on
RECURSIVE clp_layers(_,_,_,_)
clp_layers(prm, layer_paths, i, d) ==
    IF i > Len(prm.selected_layers)
    THEN [exc |-> "none", dirs |-> d]
    ELSE LET layer == prm.selected_layers[i]
             r == clp_passes(prm.renderer, layer_paths, layer,
                      GetPasses(prm.scene_info.layer_passes, layer), 1, d)
         IN  IF r.exc # "none" THEN r
             ELSE clp_layers(prm, layer_paths, i + 1, r.dirs)

\* the statement after the loop over the layers: it reads the loop
\* variable, which holds the last selected layer
clp_after_loop(prm, layer_paths, d) ==
    IF prm.selected_layers = <<>>
    THEN [exc |-> "NameError", dirs |-> d]
    ELSE LET layer == prm.selected_layers[Len(prm.selected_layers)]
         IN  IF GetPasses(prm.scene_info.layer_passes, layer) # <<>>
             THEN [exc |-> "none", dirs |-> d]
             ELSE IF layer \notin DOMAIN layer_paths
                  THEN [exc |-> "KeyError", dirs |-> d]
                  ELSE IF path_exists(layer_paths[layer], d)
                       THEN [exc |-> "none", dirs |-> d]
                       ELSE [exc |-> "none",
                             dirs |-> makedirs(layer_paths[layer], d)]

\* create_local_paths(params) with the directories d on disk: the exception
\* it raises ("none" when it returns) and the directories afterwards
create_local_paths(prm, d) ==
    LET layer_paths == layer_paths_of(prm)
        r == clp_layers(prm, layer_paths, 1, d)
    IN  IF r.exc # "none" THEN r
        ELSE clp_after_loop(prm, layer_paths, r.dirs)

----------------------------------------------------------------------------
(* get_layer_override and get_pass_names.  What the host answers to a      *)
(* query is an input: raises tells whether the query raises, value is what *)
(* it returns otherwise.                                                   *)

\* get_layer_override(layer, node, attribute) entered with the current
\* render layer cur: whether it raised, the current render layer it leaves
\* and the value it returns
get_layer_override(cur, layer, raises, value) ==
    LET cur_layer == cur
    IN  IF raises
        THEN [raised |-> TRUE, cur |-> layer, value |-> <<>>]
        ELSE [raised |-> FALSE, cur |-> cur_layer, value |-> value]

\* 'MasterBeauty'
MasterBeauty == <<"M","a","s","t","e","r","B","e","a","u","t","y">>

\* get_pass_names(renderer, layer) entered with the current render layer
\* cur; names are the enabled render elements (V-Ray) or the renderable
\* passes connected to the layer (mental ray)
get_pass_names(cur, renderer, layer, raises, names) ==
    LET cur_layer == cur
    IN  IF raises /\ renderer \in {VRAY_RENDERER, MENTAL_RAY_RENDERER}
        THEN [raised |-> TRUE, cur |-> layer, value |-> <<>>]
        ELSE [raised |-> FALSE, cur |-> cur_layer,
              value |-> IF renderer = VRAY_RENDERER THEN names
                        ELSE IF renderer = MENTAL_RAY_RENDERER
                             THEN <<MasterBeauty>> \o names
                             ELSE <<>>]

----------------------------------------------------------------------------
(* The scenes and the answers of the host and of the user explored.        *)

LayerNames == << <<"A">>, <<"B">>, <<"C">>, <<"D">> >>

Renderers == {VRAY_RENDERER, MENTAL_RAY_RENDERER, SOFTWARE_RENDERER}

\* values of the file name prefix attribute
PrefixChoices ==
    { <<"<","L","a","y","e","r",">","/","x">>,
      <<"<","R","e","n","d","e","r","L","a","y","e","r",">","/",
        "<","R","e","n","d","e","r","P","a","s","s",">","/","x">> }

\* pass names a layer may have
PassLists == { <<>>, <<<<"p">>>> }

\* text typed into the username and password fields
FieldTexts == { "", "u" }

OutPath == <<"/","o">>

\* self.layers of the window: the render layers listed in the dialog
ui_layers == <<defaultRenderLayer>> \o scene.layers

\* the selections a list of items allows, in list order
RECURSIVE Selections(_)
Selections(items) ==
    IF items = <<>> THEN { <<>> }
    ELSE LET rest == Selections(Tail(items))
         IN  rest \cup { <<Head(items)>> \o r : r \in rest }

\* ','.join(list)
RECURSIVE join_comma(_)
join_comma(list) ==
    IF list = <<>> THEN <<>>
    ELSE IF Len(list) = 1 THEN Head(list)
    ELSE Head(list) \o <<",">> \o join_comma(Tail(list))

\* d with the key k set to v
SetItem(d, k, v) == [n \in DOMAIN d \cup {k} |-> IF n = k THEN v ELSE d[n]]

\* d without the key k
DelItem(d, k) == [n \in DOMAIN d \ {k} |-> d[n]]

----------------------------------------------------------------------------
(* SubmitWindow.submit, statement by statement.                            *)

TokensOff ==
    /\ path = <<>> /\ tokens = Dict(<<>>) /\ leaveUnmatchedTokens = FALSE
    /\ result = <<>> /\ pc = "off"

\* the locals of submit and of the get_scene_info it calls
NoLocals ==
    [ selected |-> <<>>, layers |-> None, username |-> "", password |-> "",
      z |-> "unset", i |-> 0, layer_prefixes |-> <<>>,
      layer_passes |-> <<>>, cur_before |-> <<>> ]

SubmitInit ==
    /\ TokensOff
    /\ scene \in { [layers |-> SubSeq(LayerNames, 1, n), renderer |-> r,
                    out_path |-> OutPath] :
                   n \in 0..MaxLayers, r \in Renderers }
    /\ curLayer \in {defaultRenderLayer}
                      \cup { scene.layers[n] : n \in 1..Len(scene.layers) }
    /\ dirs \in { {}, { <<<<"o">>>> } }
    /\ spc = "idle"
    /\ params = <<>>
    /\ loc = NoLocals
    /\ calls = <<>>
    /\ exc = "none"

Called(fn, arg) == calls' = Append(calls, [fn |-> fn, arg |-> arg])

\* raise MayaZyncException(msg): the constructor issues a Maya warning
RaiseMayaZyncException(msg) ==
    /\ Called("warning", msg)
    /\ exc' = "MayaZyncException"
    /\ spc' = "raised"

\* the check of the credentials were it to reject only two empty fields
credentials_missing_both(username, password) ==
    username = "" /\ password = ""

\* username=='' or password==''
credentials_missing(username, password) == username = "" \/ password = ""

\* params = window.get_render_params(); scene_path = cmds.file(...)
Submit_get_render_params ==
    /\ spc = "idle"
    /\ \E upload_only \in {0, 1} :
          params' = [upload_only |-> upload_only,
                     renderer |-> scene.renderer,
                     out_path |-> scene.out_path]
    /\ spc' = "layers"
    /\ UNCHANGED <<tvars, scene, curLayer, dirs, loc, calls, exc>>

\* if params["upload_only"] == 1: ... else: ... (the selected layers)
Submit_layers ==
    /\ spc = "layers"
    /\ IF params.upload_only = 1
       THEN /\ loc' = [loc EXCEPT !.layers = None]
            /\ spc' = "credentials"
            /\ UNCHANGED <<params, calls, exc>>
       ELSE \E selected \in Selections(ui_layers) :
               IF selected = <<>>
               THEN /\ RaiseMayaZyncException(
                           "Please select layer(s) to render.")
                    /\ UNCHANGED <<params, loc>>
               ELSE /\ params' = SetItem(params, "selected_layers", selected)
                    /\ loc' = [loc EXCEPT !.selected = selected,
                                          !.layers = Str(join_comma(selected))]
                    /\ spc' = "credentials"
                    /\ UNCHANGED <<calls, exc>>
    /\ UNCHANGED <<tvars, scene, curLayer, dirs>>

\* username, password = eval_ui(...); the check that both are given
Submit_credentials ==
    /\ spc = "credentials"
    /\ \E username \in FieldTexts, password \in FieldTexts :
          /\ loc' = [loc EXCEPT !.username = username, !.password = password]
          /\ IF credentials_missing(username, password)
             THEN RaiseMayaZyncException(
                      "Please enter a ZYNC username and password.")
             ELSE /\ spc' = "authenticate"
                  /\ UNCHANGED <<calls, exc>>
    /\ UNCHANGED <<tvars, scene, curLayer, dirs, params>>

\* z = zync.Zync(...), which may raise ZyncAuthenticationError
Submit_authenticate ==
    /\ spc = "authenticate"
    /\ \E authenticated \in BOOLEAN :
          IF authenticated
          THEN /\ Called("Zync", loc.username)
               /\ loc' = [loc EXCEPT !.z = "constructed"]
               /\ spc' = "scene_info"
               /\ UNCHANGED exc
          ELSE /\ calls' = calls \o
                     << [fn |-> "Zync", arg |-> loc.username],
                        [fn |-> "warning",
                         arg |-> "ZYNC Username Authentication Failed"] >>
               /\ exc' = "MayaZyncException"
               /\ spc' = "raised"
               /\ UNCHANGED loc
    /\ UNCHANGED <<tvars, scene, curLayer, dirs, params>>

\* if params["upload_only"] == 1: params['scene_info'] = {}; else the call
\* of get_scene_info up to its loop over the layers
Submit_scene_info ==
    /\ spc = "scene_info"
    /\ IF params.upload_only = 1
       THEN /\ params' = SetItem(params, "scene_info", <<>>)
            /\ spc' = "add_path_mappings"
            /\ UNCHANGED <<loc, calls>>
       ELSE /\ Called("get_scene_info", params.renderer)
            /\ loc' = [loc EXCEPT !.i = 1, !.layer_prefixes = <<>>,
                                  !.layer_passes = <<>>,
                                  !.cur_before = curLayer]
            /\ spc' = "get_scene_info"
            /\ UNCHANGED params
    /\ UNCHANGED <<tvars, scene, curLayer, dirs, exc>>

\* one pass of the loop over the layers in get_scene_info: the prefix of
\* the layer, an exception of the query swallowed, then its passes
GetSceneInfo_layer ==
    /\ spc = "get_scene_info"
    /\ loc.i <= Len(scene.layers)
    /\ \E prefix_raises \in BOOLEAN, prefix \in PrefixChoices,
          passes_raise \in BOOLEAN, names \in PassLists :
          LET layer == scene.layers[loc.i]
              override == get_layer_override(curLayer, layer,
                                             prefix_raises, prefix)
              layer_prefixes ==
                  IF override.raised THEN loc.layer_prefixes
                  ELSE SetItem(loc.layer_prefixes, layer, override.value)
              passes == get_pass_names(override.cur, params.renderer, layer,
                                       passes_raise, names)
          IN  IF params.renderer \in {VRAY_RENDERER, MENTAL_RAY_RENDERER}
              THEN IF passes.raised
                   THEN /\ curLayer' = passes.cur
                        /\ exc' = "RuntimeError"
                        /\ spc' = "raised"
                        /\ loc' = [loc EXCEPT
                                      !.layer_prefixes = layer_prefixes]
                   ELSE /\ curLayer' = passes.cur
                        /\ loc' = [loc EXCEPT
                                      !.i = loc.i + 1,
                                      !.layer_prefixes = layer_prefixes,
                                      !.layer_passes =
                                          SetItem(loc.layer_passes, layer,
                                                  passes.value)]
                        /\ UNCHANGED <<spc, exc>>
              ELSE /\ curLayer' = override.cur
                   /\ loc' = [loc EXCEPT !.i = loc.i + 1,
                                         !.layer_prefixes = layer_prefixes]
                   /\ UNCHANGED <<spc, exc>>
    /\ UNCHANGED <<tvars, scene, dirs, params, calls>>

\* the rest of get_scene_info: the global prefix read on
\* defaultRenderLayer, the scene_info it returns stored in params
GetSceneInfo_return ==
    /\ spc = "get_scene_info"
    /\ loc.i > Len(scene.layers)
    /\ \E prefix_raises \in BOOLEAN, prefix \in PrefixChoices :
          LET override == get_layer_override(curLayer, defaultRenderLayer,
                                             prefix_raises, prefix)
          IN  /\ curLayer' = override.cur
              /\ IF override.raised
                 THEN /\ exc' = "RuntimeError"
                      /\ spc' = "raised"
                      /\ UNCHANGED params
                 ELSE /\ params' = SetItem(params, "scene_info",
                             [file_prefix |->
                                  <<override.value, loc.layer_prefixes>>,
                              layer_passes |-> loc.layer_passes])
                      /\ spc' = "add_path_mappings"
                      /\ UNCHANGED exc
    /\ UNCHANGED <<tvars, scene, dirs, loc, calls>>

\* z.add_path_mappings(window.path_mappings); the params are printed
Submit_add_path_mappings ==
    /\ spc = "add_path_mappings"
    /\ Called("add_path_mappings", <<>>)
    /\ spc' = "create_local_paths"
    /\ UNCHANGED <<tvars, scene, curLayer, dirs, params, loc, exc>>

\* if params['upload_only'] == 0: create_local_paths(params)
Submit_create_local_paths ==
    /\ spc = "create_local_paths"
    /\ IF params.upload_only = 0
       THEN LET r == create_local_paths(params, dirs)
            IN  /\ Called("create_local_paths", params.selected_layers)
                /\ dirs' = r.dirs
                /\ exc' = r.exc
                /\ spc' = IF r.exc = "none" THEN "del_selected_layers"
                                            ELSE "raised"
       ELSE /\ spc' = "del_selected_layers"
            /\ UNCHANGED <<dirs, exc, calls>>
    /\ UNCHANGED <<tvars, scene, curLayer, params, loc>>

\* del params['selected_layers']
Submit_del_selected_layers ==
    /\ spc = "del_selected_layers"
    /\ IF "selected_layers" \in DOMAIN params
       THEN /\ params' = DelItem(params, "selected_layers")
            /\ spc' = "del_layer_passes"
            /\ UNCHANGED exc
       ELSE /\ exc' = "KeyError"
            /\ spc' = "raised"
            /\ UNCHANGED params
    /\ UNCHANGED <<tvars, scene, curLayer, dirs, loc, calls>>

\* del params['scene_info']['layer_passes']
Submit_del_layer_passes ==
    /\ spc = "del_layer_passes"
    /\ IF "layer_passes" \in DOMAIN params.scene_info
       THEN /\ params' = [params EXCEPT !.scene_info =
                             DelItem(params.scene_info, "layer_passes")]
            /\ spc' = "submit_job"
            /\ UNCHANGED exc
       ELSE /\ exc' = "KeyError"
            /\ spc' = "raised"
            /\ UNCHANGED params
    /\ UNCHANGED <<tvars, scene, curLayer, dirs, loc, calls>>

\* z.submit_job("maya", scene_path, layers, params=params)
Submit_submit_job ==
    /\ spc = "submit_job"
    /\ Called("submit_job", [layers |-> loc.layers, params |-> params])
    /\ spc' = "confirmDialog"
    /\ UNCHANGED <<tvars, scene, curLayer, dirs, params, loc, exc>>

\* cmds.confirmDialog(title='Success', ...)
Submit_confirmDialog ==
    /\ spc = "confirmDialog"
    /\ Called("confirmDialog", "Success")
    /\ spc' = "returned"
    /\ UNCHANGED <<tvars, scene, curLayer, dirs, params, loc, exc>>

SubmitNext ==
    \/ Submit_get_render_params
    \/ Submit_layers
    \/ Submit_credentials
    \/ Submit_authenticate
    \/ Submit_scene_info
    \/ GetSceneInfo_layer
    \/ GetSceneInfo_return
    \/ Submit_add_path_mappings
    \/ Submit_create_local_paths
    \/ Submit_del_selected_layers
    \/ Submit_del_layer_passes
    \/ Submit_submit_job
    \/ Submit_confirmDialog

SubmitSpec == SubmitInit /\ [][SubmitNext]_vars

----------------------------------------------------------------------------
(* Properties of a submission.                                             *)

\* submit has returned or has raised
Finished == spc \in {"returned", "raised"}

\* the positions in the log of the calls of fn
CallsOf(fn) == { n \in 1..Len(calls) : calls[n].fn = fn }

\* the submission is upload-only, the credentials typed are both non-empty
\* and the Zync client was constructed
UploadOnlyAuthenticated ==
    /\ spc \notin {"idle", "layers", "credentials", "authenticate"}
    /\ params.upload_only = 1
    /\ loc.username # "" /\ loc.password # ""
    /\ loc.z = "constructed"

\* C11: an upload-only submission with non-empty credentials and a
\* successful authentication ends with submit_job called exactly once, with
\* layers None and an empty scene_info, without get_scene_info or
\* create_local_paths having been called, and with the success dialog shown
\* after it.
C11_UploadOnlySubmits ==
    (Finished /\ UploadOnlyAuthenticated) =>
        /\ spc = "returned"
        /\ Cardinality(CallsOf("submit_job")) = 1
        /\ \A n \in CallsOf("submit_job") :
              /\ calls[n].arg.layers = None
              /\ calls[n].arg.params.scene_info = <<>>
              /\ \E m \in CallsOf("confirmDialog") : m > n
        /\ CallsOf("get_scene_info") = {}
        /\ CallsOf("create_local_paths") = {}

\* create_local_paths(params) has returned to submit without raising
LocalPathsCreated ==
    spc = "del_selected_layers" /\ params.upload_only = 0

\* the directory or directories create_local_paths is to make for a layer
\* whose path it has computed: one per pass, or the layer's own
DirsCreatedFor(layer) ==
    LET layer_paths == layer_paths_of(params)
        passes == GetPasses(params.scene_info.layer_passes, layer)
    IN  IF passes # <<>>
        THEN \A j \in 1..Len(passes) :
                path_exists(pass_path_of(params.renderer, layer_paths[layer],
                                         passes[j]), dirs)
        ELSE path_exists(layer_paths[layer], dirs)

\* C12: once create_local_paths(params) has returned, a directory exists
\* for every selected layer: the directory of each of its passes when it has
\* passes, the layer's own expanded directory when it has none.
C12_DirsForSelectedLayers ==
    LocalPathsCreated =>
        \A n \in 1..Len(params.selected_layers) :
            params.selected_layers[n] \in DOMAIN layer_paths_of(params)
                => DirsCreatedFor(params.selected_layers[n])

\* submit has gone past its first guard: the submission is upload-only or
\* at least one layer was selected
LayersGuardPassed ==
    /\ spc \notin {"idle", "layers"}
    /\ params.upload_only = 1 \/ loc.selected # <<>>

\* submit has gone past its second guard as well: neither the username nor
\* the password read is empty
CredentialsGuardPassed ==
    /\ LayersGuardPassed
    /\ spc # "credentials"
    /\ loc.username # "" /\ loc.password # ""

\* submit has gone past its third guard as well: the Zync client was
\* constructed
AuthenticationGuardPassed ==
    /\ CredentialsGuardPassed
    /\ spc # "authenticate"
    /\ loc.z = "constructed"

\* submit ended on a MayaZyncException and nothing was called but what the
\* log holds before the warning of the exception
RaisedAfter(before) ==
    /\ spc = "raised"
    /\ exc = "MayaZyncException"
    /\ Len(calls) = Len(before) + 1
    /\ \A n \in 1..Len(before) : calls[n].fn = before[n]
    /\ calls[Len(calls)].fn = "warning"

\* C13: submit_job is called at most once, and only once the three guards
\* have passed in order: a layer selected unless upload-only, username and
\* password both non-empty, the Zync client constructed.  A guard that
\* fails raises MayaZyncException and nothing after it runs: no
\* authentication after a failed layer or credentials guard, no
\* create_local_paths, no submit_job, no success dialog.
C13_SubmitOnlyAfterGuards ==
    /\ Cardinality(CallsOf("submit_job")) <= 1
    /\ \A n \in CallsOf("submit_job") :
          /\ AuthenticationGuardPassed
          /\ \E m \in CallsOf("Zync") : m < n
    /\ (spc \notin {"idle", "layers"} /\ ~LayersGuardPassed)
          => RaisedAfter(<<>>)
    /\ (LayersGuardPassed /\ spc # "credentials" /\ ~CredentialsGuardPassed)
          => RaisedAfter(<<>>)
    /\ (CredentialsGuardPassed /\ spc # "authenticate"
          /\ ~AuthenticationGuardPassed)
          => RaisedAfter(<<"Zync">>)
    /\ exc = "MayaZyncException" =>
          /\ spc = "raised"
          /\ ~AuthenticationGuardPassed
          /\ CallsOf("create_local_paths") = {}
          /\ CallsOf("submit_job") = {}
          /\ CallsOf("confirmDialog") = {}

\* a submission that passed the three guards, called submit_job and showed
\* the dialog
C13_Witness ==
    /\ spc = "returned"
    /\ AuthenticationGuardPassed
    /\ Cardinality(CallsOf("submit_job")) = 1
    /\ CallsOf("confirmDialog") # {}

\* get_scene_info has returned to submit without raising
SceneInfoReturned ==
    spc = "add_path_mappings" /\ params.upload_only = 0

\* C14: when get_scene_info returns, the current render layer of the host
\* is the one that was current when it was called, whatever the per-layer
\* queries answered, a prefix query that raised and was swallowed by
\* get_scene_info included.
C14_CurrentLayerRestored ==
    SceneInfoReturned => curLayer = loc.cur_before

====
